---- MODULE Spec2Model ----
(***************************************************************************)
(* ST3215 servo position reader (perseus-arm-teleop).                      *)
(*                                                                         *)
(* One ST3215ServoReader bound to one serial line.  readPosition is a      *)
(* blocking call; it is cut into steps at its I/O points (the write, the   *)
(* settle sleep, every read_some of the two read loops) so that the device *)
(* on the other end of the line can act between them.  Time is in          *)
(* milliseconds, measured from the start of the current call.              *)
(*                                                                         *)
(* SpecLife adds the constructor and the destructor of the reader.         *)
(* SpecPoll is the polling loop of main over two readers, each call of     *)
(* readPosition taken as one step.                                         *)
(***************************************************************************)
EXTENDS Integers, Sequences, FiniteSets

VARIABLES
    pc,          \* position of the caller's thread inside readPosition
    servo_id,    \* argument of the call in progress
    command,     \* the frame built by _createReadCommand
    tx,          \* bytes of this call accepted by the serial line
    line,        \* bytes received on the line and not read yet, oldest first;
                 \* old marks a byte that arrived before the current call
    reply,       \* bytes the device has sent in answer to the current request
    header,      \* header bytes read so far (total_read = Len(header))
    data,        \* payload bytes read so far (total_read = Len(data))
    now,         \* steady_clock, ms since the call started
    start_time,  \* start_time of the read loop in progress
    result,      \* what the call gave back to its caller
    raised_in,   \* the step of readPosition that threw (history)
    from_old,    \* TRUE once the call has read a byte that was on the line before
                 \* its request was written (history)
    life,        \* where the ST3215ServoReader object is in its lifetime
    ctor_step,   \* statements of the constructor's try block that have completed
    is_open,     \* _serial_port.is_open(): the object holds the serial handle
    closes,      \* times the serial handle has been released (history)
    surfaced,    \* what construction or destruction threw to its caller
    running,     \* main's flag, cleared by the signal handler
    cursor,      \* where main's loop body is: the arm being swept and the index i
    arm_data,    \* arm1_data and arm2_data
    unread,      \* per reader: bytes received on its serial line and not read yet
    polled,      \* what the latest readPosition of the loop gave back (history)
    reads        \* per servo: the positions its reads have returned (history)

callVars == <<pc, servo_id, command, tx, line, reply, header, data, now, start_time,
              result, raised_in, from_old>>

lifeVars == <<life, ctor_step, is_open, closes, surfaced>>

pollVars == <<running, cursor, arm_data, unread, polled, reads>>

vars == <<callVars, lifeVars, pollVars>>

---------------------------------------------------------------------------
(* Bounds of the model *)

\* unread bytes the line holds
MaxLine == 2

\* servo ids the caller asks for (1 keeps the checksum sums below 256, 253 wraps them)
ServoIds == {1, 253}
\* sampled durations (ms) of one blocking call or scheduling delay
Durations == {0, 50}

---------------------------------------------------------------------------
(* Program constants *)

PositionRegister == 56
PositionSize == 2
ReadInstruction == 2
RequestLength == 4
HeaderSize == 4
MinLength == 4
SettleMs == 10
TimeoutMs == 100
SleepMs == 1
\* open and the five set_option calls of the constructor
CtorSteps == 6

Min(a, b) == IF a < b THEN a ELSE b

RECURSIVE SumBytes(_)
SumBytes(s) == IF s = <<>> THEN 0 ELSE Head(s) + SumBytes(Tail(s))

\* uint8_t arithmetic: checksum += b wraps at 256, ~checksum is the ones-complement
Checksum(bytes) == 255 - (SumBytes(bytes) % 256)

\* mutant: the checksum loop starts at index 0 and takes in the two 0xFF markers
CreateReadCommandFromZero(id, address, size) ==
    LET body == <<id, RequestLength, ReadInstruction, address, size>>
    IN  <<255, 255>> \o body \o <<Checksum(<<255, 255>> \o body)>>

\* mutant: the instruction byte is WRITE (0x03)
CreateReadCommandWrite(id, address, size) ==
    LET body == <<id, RequestLength, 3, address, size>>
    IN  <<255, 255>> \o body \o <<Checksum(body)>>

\* _createReadCommand: the checksum covers command[2 .. size-2]
CreateReadCommand(id, address, size) ==
    LET body == <<id, RequestLength, ReadInstruction, address, size>>
    IN  <<255, 255>> \o body \o <<Checksum(body)>>

---------------------------------------------------------------------------
(* What a call gives back *)

NoResult ==
    [kind |-> "none", position |-> 0, id |-> 0, what |-> "", sub |-> "",
     flags |-> <<>>, raw |-> <<>>]

\* return <position>
Success(p) == [NoResult EXCEPT !.kind = "Success", !.position = p]

\* std::runtime_error(<what>) thrown inside the try block
Exception(what, sub, flags, raw) ==
    [NoResult EXCEPT !.what = what, !.sub = sub, !.flags = flags, !.raw = raw]

\* mutant: the catch block passes the exception on without the servo id
RethrowNoId(id, e) == [e EXCEPT !.kind = "Error"]

\* the catch block: "Error reading servo <id>: <e.what()>"
Rethrow(id, e) == [e EXCEPT !.kind = "Error", !.id = id]

---------------------------------------------------------------------------
(* Header validation and payload decoding *)

HexDigits ==
    <<"0", "1", "2", "3", "4", "5", "6", "7", "8", "9", "a", "b", "c", "d", "e", "f">>

\* std::hex << std::setw(2) << std::setfill('0') << int(b): two lower-case digits
HexByte(b) == <<HexDigits[(b \div 16) + 1], HexDigits[(b % 16) + 1]>>

\* the four header bytes as the message shows them, each followed by a space
HexDump(h) == [i \in 1 .. Len(h) |-> HexByte(h[i])]

\* mutant: the echoed id is tested before the markers
HeaderErrorIdFirst(h, id) ==
    IF h[3] # id THEN "Mismatched servo ID"
    ELSE IF h[1] # 255 \/ h[2] # 255 THEN "Invalid header markers"
    ELSE IF h[4] < MinLength THEN "Invalid length"
    ELSE ""

\* mutant: the echoed id is not compared with the requested one
HeaderErrorNoIdCheck(h, id) ==
    IF h[1] # 255 \/ h[2] # 255 THEN "Invalid header markers"
    ELSE IF h[4] < MinLength THEN "Invalid length"
    ELSE ""

\* header_error of the validation; "" when the header is accepted
HeaderError(h, id) ==
    IF h[1] # 255 \/ h[2] # 255 THEN "Invalid header markers"
    ELSE IF h[3] # id THEN "Mismatched servo ID"
    ELSE IF h[4] < MinLength THEN "Invalid length"
    ELSE ""

\* data[0] & (1 << k)
Bit(status, k) == (status \div (2 ^ k)) % 2 = 1

FlagNames ==
    <<"Input Voltage", "Angle Limit", "Overheating", "Range", "Checksum",
      "Overload", "Instruction">>

\* mutant: the tests of 0x08 and 0x10 carry each other's name
ServoErrorsSwapped(status) ==
    LET Name(k, n) == IF Bit(status, k) THEN <<FlagNames[n]>> ELSE <<>>
    IN  Name(0, 1) \o Name(1, 2) \o Name(2, 3) \o Name(3, 5) \o Name(4, 4)
            \o Name(5, 6) \o Name(6, 7)

\* the names appended to "Servo errors:", in the order of the seven tests
ServoErrors(status) ==
    LET Name(k) == IF Bit(status, k) THEN <<FlagNames[k + 1]>> ELSE <<>>
    IN  Name(0) \o Name(1) \o Name(2) \o Name(3) \o Name(4) \o Name(5) \o Name(6)

\* mutant: the result is masked to the 12 bits of the encoder
PositionMasked(d) == (d[2] + d[3] * 256) % 4096

\* mutant: the high byte is shifted by 16 into a wider result
PositionWide(d) == d[2] + d[3] * 65536

\* uint16_t(data[1]) | (uint16_t(data[2]) << 8); sequences are 1-based
Position(d) == (d[2] + d[3] * 256) % 65536

---------------------------------------------------------------------------
(* The clock *)

\* now - start_time > timeout
TimedOut(t, start) == t - start > TimeoutMs

\* the clock after d more ms; beyond the deadline every instant reads the same
Advance(t, start, d) == Min(t + d, start + TimeoutMs + 1)

\* sampled durations of sleep_for(1 ms): at least SleepMs
SleepDurations == {d \in Durations : d >= SleepMs}

---------------------------------------------------------------------------
(* The device *)

OtherId(id) == CHOOSE x \in ServoIds : x # id

\* a reply frame: header, payload without its last byte, and the last byte, which
\* is the protocol checksum plus off (off = 0: the correct checksum)
Frame(head, body, off) ==
    head \o body \o <<(Checksum(SubSeq(head, 3, Len(head)) \o body) + off) % 256>>

\* sampled replies to a request for id; the device may stop after any byte.  The
\* last one is a complete frame followed by one more byte
Replies(id) ==
    { Frame(<<255, 255, id, 4>>, <<0, 52, 18>>, 0),
      Frame(<<255, 255, id, 4>>, <<0, 52, 15>>, 0),
      Frame(<<255, 255, id, 4>>, <<0, 52, 18>>, 1),
      Frame(<<255, 255, id, 4>>, <<5, 52, 18>>, 0),
      Frame(<<255, 255, id, 4>>, <<122, 52, 15>>, 0),
      Frame(<<255, 255, id, 4>>, <<128, 52, 15>>, 0),
      Frame(<<255, 255, id, 5>>, <<0, 52, 18, 7>>, 0),
      Frame(<<255, 255, id, 3>>, <<0, 52>>, 0),
      Frame(<<255, 255, OtherId(id), 4>>, <<0, 52, 18>>, 0),
      Frame(<<255, 255, OtherId(id), 3>>, <<0, 52>>, 0),
      Frame(<<255, 0, id, 4>>, <<0, 52, 18>>, 0),
      Frame(<<255, 0, OtherId(id), 3>>, <<0, 52>>, 0),
      Frame(<<0, 255, id, 4>>, <<0, 52, 18>>, 0),
      Frame(<<255, 255, id, 4>>, <<0, 52, 18>>, 0) \o <<255>> }

IsPrefix(p, s) == Len(p) <= Len(s) /\ SubSeq(s, 1, Len(p)) = p

\* the bytes that can follow what the device has sent so far
ReplyBytes(id, sent) ==
    { r[Len(sent) + 1] : r \in { x \in Replies(id) : Len(x) > Len(sent) /\ IsPrefix(sent, x) } }

\* the device puts the next byte of its reply on the line
DeviceSend(b) ==
    /\ tx = command /\ tx # <<>>
    /\ Len(line) < MaxLine
    /\ b \in ReplyBytes(servo_id, reply)
    /\ reply' = Append(reply, b)
    /\ line' = Append(line, [b |-> b, old |-> FALSE])
    /\ UNCHANGED <<pc, servo_id, command, tx, header, data, now, start_time,
                   result, raised_in, from_old>>
    /\ UNCHANGED <<lifeVars, pollVars>>

---------------------------------------------------------------------------
(* The data of the polling consumer *)

\* reader1 with arm1_data, reader2 with arm2_data
Arms == {1, 2}

\* sampled values of the loop index i (the loops of main run over 0 .. 5)
ServoIndexes == {0, 1}

Max(a, b) == IF a > b THEN a ELSE b

\* struct ServoData as constructed; error is empty
InitialServoData ==
    [current |-> 0, min |-> 4095, max |-> 0, error |-> NoResult]

---------------------------------------------------------------------------
(* readPosition *)

Init ==
    /\ pc = "idle"
    /\ servo_id = 0
    /\ command = <<>>
    /\ tx = <<>>
    /\ line = <<>>
    /\ reply = <<>>
    /\ header = <<>>
    /\ data = <<>>
    /\ now = 0
    /\ start_time = 0
    /\ result = NoResult
    /\ raised_in = ""
    /\ from_old = FALSE
    /\ life = "alive"
    /\ ctor_step = CtorSteps
    /\ is_open = TRUE
    /\ closes = 0
    /\ surfaced = ""
    /\ running = TRUE
    /\ cursor = [arm |-> 1, i |-> 0]
    /\ arm_data = [a \in Arms |-> [k \in ServoIndexes |-> InitialServoData]]
    /\ unread = [a \in Arms |-> <<>>]
    /\ polled = NoResult
    /\ reads = [a \in Arms |-> [k \in ServoIndexes |-> {}]]

\* mutant: a failed attempt is not reported but started again from the write
ThrowRetry(phase, e) ==
    /\ pc' = "send"
    /\ UNCHANGED <<result, raised_in>>

\* a throw inside the try block, caught and rethrown with the servo id
Throw(phase, e) ==
    /\ result' = Rethrow(servo_id, e)
    /\ raised_in' = phase
    /\ pc' = "done"

\* entry: the command is built
Call(id) ==
    /\ life = "alive"
    /\ pc = "idle"
    /\ line' = [i \in 1 .. Len(line) |-> [line[i] EXCEPT !.old = TRUE]]
    /\ servo_id' = id
    /\ command' = CreateReadCommand(id, PositionRegister, PositionSize)
    /\ pc' = "send"
    /\ UNCHANGED <<tx, reply, header, data, now, start_time, result,
                   raised_in, from_old>>
    /\ UNCHANGED <<lifeVars, pollVars>>

\* boost::asio::write accepted the whole command
WriteOk ==
    /\ pc = "send"
    /\ tx' = command
    /\ pc' = "settle"
    /\ UNCHANGED <<servo_id, command, line, reply, header, data, now, start_time,
                   result, raised_in, from_old>>
    /\ UNCHANGED <<lifeVars, pollVars>>

\* boost::asio::write set write_ec after n bytes
WriteError(n) ==
    /\ pc = "send"
    /\ n \in 0 .. Len(command) - 1
    /\ tx' = SubSeq(command, 1, n)
    /\ Throw("send", Exception("Write error", "", <<>>, <<>>))
    /\ UNCHANGED <<servo_id, command, line, reply, header, data, now, start_time,
                   from_old>>
    /\ UNCHANGED <<lifeVars, pollVars>>

\* mutant: the count of bytes written is not compared with the command's size
WriteShortIgnored(n) ==
    /\ pc = "send"
    /\ n \in 0 .. Len(command) - 1
    /\ tx' = SubSeq(command, 1, n)
    /\ pc' = "settle"
    /\ UNCHANGED <<servo_id, command, line, reply, header, data, now, start_time,
                   result, raised_in, from_old>>
    /\ UNCHANGED <<lifeVars, pollVars>>

\* no error code, but written != command.size()
WriteShort(n) ==
    /\ pc = "send"
    /\ n \in 0 .. Len(command) - 1
    /\ tx' = SubSeq(command, 1, n)
    /\ Throw("send", Exception("Failed to write complete command", "", <<>>, <<>>))
    /\ UNCHANGED <<servo_id, command, line, reply, header, data, now, start_time,
                   from_old>>
    /\ UNCHANGED <<lifeVars, pollVars>>

\* sleep_for(10 ms), sampled as exactly SettleMs; then header(4), total_read = 0, start_time = now()
Settle ==
    /\ pc = "settle"
    /\ now' = now + SettleMs
    /\ start_time' = now'
    /\ header' = <<>>
    /\ pc' = "header"
    /\ UNCHANGED <<servo_id, command, tx, line, reply, data, result, raised_in,
                   from_old>>
    /\ UNCHANGED <<lifeVars, pollVars>>

Bytes(s) == [i \in 1 .. Len(s) |-> s[i].b]

Old(s) == \E i \in 1 .. Len(s) : s[i].old

\* mutant: read_some is given the whole 4-byte buffer on every turn
HeaderReadWholeBuffer(n, d) ==
    /\ pc = "header"
    /\ n \in 1 .. Min(Len(line), HeaderSize)
    /\ d \in Durations
    /\ header' = header \o Bytes(SubSeq(line, 1, n))
    /\ line' = SubSeq(line, n + 1, Len(line))
    /\ from_old' = (from_old \/ Old(SubSeq(line, 1, n)))
    /\ now' = Advance(now, start_time, d)
    /\ IF TimedOut(now', start_time)
       THEN Throw("header", Exception("Timeout waiting for header", "", <<>>, <<>>))
       ELSE /\ pc' = IF Len(header') < HeaderSize THEN "header" ELSE "validate"
            /\ UNCHANGED <<result, raised_in>>
    /\ UNCHANGED <<servo_id, command, tx, reply, data, start_time>>
    /\ UNCHANGED <<lifeVars, pollVars>>

\* one turn of the header loop in which read_some returned n > 0 bytes
HeaderRead(n, d) ==
    /\ pc = "header"
    /\ n \in 1 .. Min(Len(line), HeaderSize - Len(header))
    /\ d \in Durations
    /\ header' = header \o Bytes(SubSeq(line, 1, n))
    /\ line' = SubSeq(line, n + 1, Len(line))
    /\ from_old' = (from_old \/ Old(SubSeq(line, 1, n)))
    /\ now' = Advance(now, start_time, d)
    /\ IF TimedOut(now', start_time)
       THEN Throw("header", Exception("Timeout waiting for header", "", <<>>, <<>>))
       ELSE /\ pc' = IF Len(header') < HeaderSize THEN "header" ELSE "validate"
            /\ UNCHANGED <<result, raised_in>>
    /\ UNCHANGED <<servo_id, command, tx, reply, data, start_time>>
    /\ UNCHANGED <<lifeVars, pollVars>>

\* one turn of the header loop in which read_some returned no byte and no error
HeaderZeroRead(d, s) ==
    /\ pc = "header"
    /\ line = <<>>
    /\ d \in Durations
    /\ s \in SleepDurations
    /\ LET t == Advance(now, start_time, d)
       IN  IF TimedOut(t, start_time)
           THEN /\ now' = t
                /\ Throw("header", Exception("Timeout waiting for header", "", <<>>, <<>>))
           ELSE /\ now' = Advance(t, start_time, s)
                /\ UNCHANGED <<pc, result, raised_in>>
    /\ UNCHANGED <<servo_id, command, tx, line, reply, header, data, start_time,
                   from_old>>
    /\ UNCHANGED <<lifeVars, pollVars>>

\* read_some set read_ec
HeaderReadError ==
    /\ pc = "header"
    /\ Throw("header", Exception("Header read error", "", <<>>, <<>>))
    /\ UNCHANGED <<servo_id, command, tx, line, reply, header, data, now,
                   start_time, from_old>>
    /\ UNCHANGED <<lifeVars, pollVars>>

\* mutant: start_time is not taken again before the payload loop
ValidateHeaderKeepsStart ==
    /\ pc = "validate"
    /\ LET header_error == HeaderError(header, servo_id)
       IN  IF header_error # ""
           THEN /\ Throw("header", Exception("Header error", header_error, <<>>,
                                               HexDump(header)))
                /\ UNCHANGED <<data, start_time>>
           ELSE /\ data' = <<>>
                /\ pc' = "payload"
                /\ UNCHANGED <<result, raised_in, start_time>>
    /\ UNCHANGED <<servo_id, command, tx, line, reply, header, now, from_old>>
    /\ UNCHANGED <<lifeVars, pollVars>>

\* the validation of the four header bytes; then data(header[3]), total_read = 0,
\* start_time = now()
ValidateHeader ==
    /\ pc = "validate"
    /\ LET header_error == HeaderError(header, servo_id)
       IN  IF header_error # ""
           THEN /\ Throw("header", Exception("Header error", header_error, <<>>,
                                               HexDump(header)))
                /\ UNCHANGED <<data, start_time>>
           ELSE /\ data' = <<>>
                /\ start_time' = now
                /\ pc' = "payload"
                /\ UNCHANGED <<result, raised_in>>
    /\ UNCHANGED <<servo_id, command, tx, line, reply, header, now, from_old>>
    /\ UNCHANGED <<lifeVars, pollVars>>

\* one turn of the payload loop in which read_some returned n > 0 bytes
PayloadRead(n, d) ==
    /\ pc = "payload"
    /\ n \in 1 .. Min(Len(line), header[4] - Len(data))
    /\ d \in Durations
    /\ data' = data \o Bytes(SubSeq(line, 1, n))
    /\ line' = SubSeq(line, n + 1, Len(line))
    /\ from_old' = (from_old \/ Old(SubSeq(line, 1, n)))
    /\ now' = Advance(now, start_time, d)
    /\ IF TimedOut(now', start_time)
       THEN Throw("payload", Exception("Timeout waiting for data", "", <<>>, <<>>))
       ELSE /\ pc' = IF Len(data') < header[4] THEN "payload" ELSE "decode"
            /\ UNCHANGED <<result, raised_in>>
    /\ UNCHANGED <<servo_id, command, tx, reply, header, start_time>>
    /\ UNCHANGED <<lifeVars, pollVars>>

\* one turn of the payload loop in which read_some returned no byte and no error
PayloadZeroRead(d, s) ==
    /\ pc = "payload"
    /\ line = <<>>
    /\ d \in Durations
    /\ s \in SleepDurations
    /\ LET t == Advance(now, start_time, d)
       IN  IF TimedOut(t, start_time)
           THEN /\ now' = t
                /\ Throw("payload", Exception("Timeout waiting for data", "", <<>>, <<>>))
           ELSE /\ now' = Advance(t, start_time, s)
                /\ UNCHANGED <<pc, result, raised_in>>
    /\ UNCHANGED <<servo_id, command, tx, line, reply, header, data, start_time,
                   from_old>>
    /\ UNCHANGED <<lifeVars, pollVars>>

\* read_some set read_ec
PayloadReadError ==
    /\ pc = "payload"
    /\ Throw("payload", Exception("Data read error", "", <<>>, <<>>))
    /\ UNCHANGED <<servo_id, command, tx, line, reply, header, data, now,
                   start_time, from_old>>
    /\ UNCHANGED <<lifeVars, pollVars>>

\* the status test and the position
Decode ==
    /\ pc = "decode"
    /\ IF data[1] # 0
       THEN Throw("decode", Exception("Servo errors", "", ServoErrors(data[1]), <<>>))
       ELSE /\ result' = Success(Position(data))
            /\ pc' = "done"
            /\ UNCHANGED raised_in
    /\ UNCHANGED <<servo_id, command, tx, line, reply, header, data, now,
                   start_time, from_old>>
    /\ UNCHANGED <<lifeVars, pollVars>>

\* the caller has the position or the exception; the locals of the call are gone
Return ==
    /\ pc = "done"
    /\ pc' = "idle"
    /\ servo_id' = 0
    /\ command' = <<>>
    /\ tx' = <<>>
    /\ reply' = <<>>
    /\ header' = <<>>
    /\ data' = <<>>
    /\ now' = 0
    /\ start_time' = 0
    /\ result' = NoResult
    /\ raised_in' = ""
    /\ from_old' = FALSE
    /\ UNCHANGED line
    /\ UNCHANGED <<lifeVars, pollVars>>

\* the steps the calling thread is sure to take.  A synchronous read_some on a
\* boost::asio::serial_port returns once at least one byte has been read or an
\* error has occurred; with no byte on the line it need not return, so the turns
\* of the loops that find the line empty are not among them.
ThreadStep ==
    \/ WriteOk
    \/ Settle
    \/ \E n \in 1 .. HeaderSize, d \in Durations : HeaderRead(n, d)
    \/ ValidateHeader
    \/ \E n \in 1 .. MaxLine, d \in Durations : PayloadRead(n, d)
    \/ Decode

Next ==
    \/ \E id \in ServoIds : Call(id)
    \/ WriteOk
    \/ \E n \in 0 .. 7 : WriteError(n)
    \/ \E n \in 0 .. 7 : WriteShort(n)
    \/ Settle
    \/ \E n \in 1 .. HeaderSize, d \in Durations : HeaderRead(n, d)
    \/ \E d \in Durations, s \in SleepDurations : HeaderZeroRead(d, s)
    \/ HeaderReadError
    \/ ValidateHeader
    \/ \E n \in 1 .. MaxLine, d \in Durations : PayloadRead(n, d)
    \/ \E d \in Durations, s \in SleepDurations : PayloadZeroRead(d, s)
    \/ PayloadReadError
    \/ Decode
    \/ Return
    \/ \E b \in ReplyBytes(servo_id, reply) : DeviceSend(b)

Spec == Init /\ [][Next]_vars

\* the thread runs; the device and the caller owe nothing
LiveSpec == Spec /\ WF_vars(ThreadStep)

---------------------------------------------------------------------------
(* The request encoder on its own: every servo id of the protocol *)

InitCodec ==
    /\ pc = "codec"
    /\ servo_id \in 1 .. 253
    /\ command = <<>>
    /\ tx = <<>>
    /\ line = <<>>
    /\ reply = <<>>
    /\ header = <<>>
    /\ data = <<>>
    /\ now = 0
    /\ start_time = 0
    /\ result = NoResult
    /\ raised_in = ""
    /\ from_old = FALSE
    /\ life = "alive"
    /\ ctor_step = CtorSteps
    /\ is_open = TRUE
    /\ closes = 0
    /\ surfaced = ""
    /\ running = TRUE
    /\ cursor = [arm |-> 1, i |-> 0]
    /\ arm_data = [a \in Arms |-> [k \in ServoIndexes |-> InitialServoData]]
    /\ unread = [a \in Arms |-> <<>>]
    /\ polled = NoResult
    /\ reads = [a \in Arms |-> [k \in ServoIndexes |-> {}]]

\* _createReadCommand(servo_id, 0x38, 2), the call readPosition makes
Encode ==
    /\ pc = "codec"
    /\ command' = CreateReadCommand(servo_id, PositionRegister, PositionSize)
    /\ pc' = "encoded"
    /\ UNCHANGED <<servo_id, tx, line, reply, header, data, now, start_time,
                   result, raised_in, from_old>>
    /\ UNCHANGED <<lifeVars, pollVars>>

NextCodec == Encode

SpecCodec == InitCodec /\ [][NextCodec]_vars

---------------------------------------------------------------------------
(* The lifetime of a reader: constructor, readPosition calls, destructor *)

InitLife ==
    /\ pc = "idle"
    /\ servo_id = 0
    /\ command = <<>>
    /\ tx = <<>>
    /\ line = <<>>
    /\ reply = <<>>
    /\ header = <<>>
    /\ data = <<>>
    /\ now = 0
    /\ start_time = 0
    /\ result = NoResult
    /\ raised_in = ""
    /\ from_old = FALSE
    /\ life = "unborn"
    /\ ctor_step = 0
    /\ is_open = FALSE
    /\ closes = 0
    /\ surfaced = ""
    /\ running = TRUE
    /\ cursor = [arm |-> 1, i |-> 0]
    /\ arm_data = [a \in Arms |-> [k \in ServoIndexes |-> InitialServoData]]
    /\ unread = [a \in Arms |-> <<>>]
    /\ polled = NoResult
    /\ reads = [a \in Arms |-> [k \in ServoIndexes |-> {}]]

\* the member initialisers: _io_service(), _serial_port(_io_service), not opened
Construct ==
    /\ life = "unborn"
    /\ life' = "constructing"
    /\ UNCHANGED <<ctor_step, is_open, closes, surfaced>>
    /\ UNCHANGED <<callVars, pollVars>>

\* the next statement of the try block succeeds: open(port), then set_option of
\* baud rate, character size, stop bits, parity and flow control
CtorStepOk ==
    /\ life = "constructing"
    /\ ctor_step < CtorSteps
    /\ ctor_step' = ctor_step + 1
    /\ is_open' = IF ctor_step = 0 THEN TRUE ELSE is_open
    /\ life' = IF ctor_step' = CtorSteps THEN "alive" ELSE "constructing"
    /\ UNCHANGED <<closes, surfaced>>
    /\ UNCHANGED <<callVars, pollVars>>

\* the next statement throws boost::system::system_error; the catch block throws
\* std::runtime_error("Failed to open serial port: ...") out of the constructor
CtorStepFail ==
    /\ life = "constructing"
    /\ ctor_step < CtorSteps
    /\ surfaced' = "Failed to open serial port"
    /\ life' = "unwinding"
    /\ UNCHANGED <<ctor_step, is_open, closes>>
    /\ UNCHANGED <<callVars, pollVars>>

\* mutant: a failure of close() leaves the destructor
DestructorSurfaces(close_fails) ==
    /\ life = "alive"
    /\ pc = "idle"
    /\ close_fails \in BOOLEAN
    /\ IF is_open
       THEN /\ is_open' = FALSE
            /\ closes' = closes + 1
            /\ surfaced' = IF close_fails THEN "close failed" ELSE surfaced
       ELSE UNCHANGED <<is_open, closes, surfaced>>
    /\ life' = "destructing"
    /\ UNCHANGED ctor_step
    /\ UNCHANGED <<callVars, pollVars>>

\* the destructor's body: if (is_open()) close(), inside try / catch (...) {}.
\* close() gives the descriptor up whether or not it reports a failure
Destructor(close_fails) ==
    /\ life = "alive"
    /\ pc = "idle"
    /\ close_fails \in BOOLEAN
    /\ IF is_open
       THEN /\ is_open' = FALSE
            /\ closes' = closes + 1
       ELSE UNCHANGED <<is_open, closes>>
    /\ life' = "destructing"
    /\ UNCHANGED <<ctor_step, surfaced>>
    /\ UNCHANGED <<callVars, pollVars>>

\* mutant: the member holds a bare descriptor that nothing closes
MemberReleaseLeak ==
    /\ life \in {"unwinding", "destructing"}
    /\ life' = IF life = "unwinding" THEN "failed" ELSE "destroyed"
    /\ UNCHANGED <<ctor_step, is_open, closes, surfaced>>
    /\ UNCHANGED <<callVars, pollVars>>

\* the member _serial_port is destroyed, after the destructor's body or when the
\* constructor throws: boost::asio::serial_port closes the handle if it is open
MemberRelease ==
    /\ life \in {"unwinding", "destructing"}
    /\ IF is_open
       THEN /\ is_open' = FALSE
            /\ closes' = closes + 1
       ELSE UNCHANGED <<is_open, closes>>
    /\ life' = IF life = "unwinding" THEN "failed" ELSE "destroyed"
    /\ UNCHANGED <<ctor_step, surfaced>>
    /\ UNCHANGED <<callVars, pollVars>>

NextLife ==
    \/ Construct
    \/ CtorStepOk
    \/ CtorStepFail
    \/ \E close_fails \in BOOLEAN : Destructor(close_fails)
    \/ MemberRelease
    \/ Next

SpecLife == InitLife /\ [][NextLife]_vars

---------------------------------------------------------------------------
(* The polling loop of main: two readers, one per arm *)

\* sampled positions a servo reports: one inside 0 .. 4095, one above it
PollPositions == {3892, 4660}

\* the reply of servo id that carries position p and no fault
GoodFrame(id, p) == Frame(<<255, 255, id, 4>>, <<0, p % 256, p \div 256>>, 0)

\* sampled behaviours of the device during one call, as pairs <<bytes that arrive
\* in time, bytes that arrive after the call has given up>>: silence, the reply in
\* time, the reply late.  The device sends only onto an empty line.
Arrivals(id, pending) ==
    IF pending # <<>> THEN {<<(<<>>), (<<>>)>>}
    ELSE {<<(<<>>), (<<>>)>>, <<(<<>>), GoodFrame(id, 4660)>>}
            \cup {<<GoodFrame(id, p), (<<>>)>> : p \in PollPositions}

\* readPosition as one step, for a call during which exactly the bytes avail can
\* be read from the line: what it gives back and the bytes it leaves unread
ReadPosition(id, avail) ==
    LET timeout(what) ==
            [result |-> Rethrow(id, Exception(what, "", <<>>, <<>>)), rest |-> <<>>]
    IN  IF Len(avail) < HeaderSize THEN timeout("Timeout waiting for header")
        ELSE
        LET h == SubSeq(avail, 1, HeaderSize)
            after == SubSeq(avail, HeaderSize + 1, Len(avail))
            header_error == HeaderError(h, id)
        IN  IF header_error # ""
            THEN [result |-> Rethrow(id, Exception("Header error", header_error, <<>>,
                                                   HexDump(h))),
                  rest |-> after]
            ELSE IF Len(after) < h[4] THEN timeout("Timeout waiting for data")
            ELSE
            LET d == SubSeq(after, 1, h[4])
                rest == SubSeq(after, h[4] + 1, Len(after))
            IN  IF d[1] # 0
                THEN [result |-> Rethrow(id, Exception("Servo errors", "",
                                                       ServoErrors(d[1]), <<>>)),
                      rest |-> rest]
                ELSE [result |-> Success(Position(d)), rest |-> rest]

\* mutant: a failed read also puts the servo's values back to their initial ones
StoreResetOnError(servo, r) ==
    IF r.kind = "Success"
    THEN [current |-> r.position,
          min |-> Min(servo.min, r.position),
          max |-> Max(servo.max, r.position),
          error |-> NoResult]
    ELSE [InitialServoData EXCEPT !.error = r]

\* the body of the try block and its catch: what one read makes of a ServoData
Store(servo, r) ==
    IF r.kind = "Success"
    THEN [current |-> r.position,
          min |-> Min(servo.min, r.position),
          max |-> Max(servo.max, r.position),
          error |-> NoResult]
    ELSE [servo EXCEPT !.error = r]

\* ++i, the end of a for loop, the end of the sweep of both arms
NextCursor(c) ==
    IF c.i + 1 \in ServoIndexes THEN [c EXCEPT !.i = c.i + 1]
    ELSE IF c.arm = 1 THEN [arm |-> 2, i |-> 0]
    ELSE [arm |-> 0, i |-> 0]

\* mutant: both readers were opened on the line of arm 1
PollServoSharedLine(a, arrived, late) ==
    /\ cursor.arm = a
    /\ LET k == cursor.i
           r == ReadPosition(k + 1, unread[1] \o arrived)
       IN  /\ unread' = [unread EXCEPT ![1] = r.rest \o late]
           /\ polled' = r.result
           /\ arm_data' = [arm_data EXCEPT ![a][k] = Store(@, r.result)]
           /\ reads' = IF r.result.kind = "Success"
                       THEN [reads EXCEPT ![a][k] = @ \cup {r.result.position}]
                       ELSE reads
    /\ cursor' = NextCursor(cursor)
    /\ UNCHANGED running
    /\ UNCHANGED <<callVars, lifeVars>>

\* one turn of the for loop of arm a: readPosition(i + 1) on that arm's reader,
\* then the update of that arm's ServoData
PollServo(a, arrived, late) ==
    /\ cursor.arm = a
    /\ LET k == cursor.i
           r == ReadPosition(k + 1, unread[a] \o arrived)
       IN  /\ unread' = [unread EXCEPT ![a] = r.rest \o late]
           /\ polled' = r.result
           /\ arm_data' = [arm_data EXCEPT ![a][k] = Store(@, r.result)]
           /\ reads' = IF r.result.kind = "Success"
                       THEN [reads EXCEPT ![a][k] = @ \cup {r.result.position}]
                       ELSE reads
    /\ cursor' = NextCursor(cursor)
    /\ UNCHANGED running
    /\ UNCHANGED <<callVars, lifeVars>>

\* for (i = 0; i < 6; ++i) over reader1 and arm1_data
PollArm1 ==
    \E x \in Arrivals(cursor.i + 1, unread[1]) : PollServo(1, x[1], x[2])

\* for (i = 0; i < 6; ++i) over reader2 and arm2_data
PollArm2 ==
    \E x \in Arrivals(cursor.i + 1, unread[2]) : PollServo(2, x[1], x[2])

\* the rest of the loop body (display, key, sleep) and the test of while (running)
EndCycle ==
    /\ cursor.arm = 0
    /\ running
    /\ cursor' = [arm |-> 1, i |-> 0]
    /\ UNCHANGED <<running, arm_data, unread, polled, reads>>
    /\ UNCHANGED <<callVars, lifeVars>>

\* signalHandler: running = false.  Only the test of while (running) reads the
\* flag, so a signal during the sweep is taken as arriving just before that test
Signal ==
    /\ cursor.arm = 0
    /\ running
    /\ running' = FALSE
    /\ UNCHANGED <<cursor, arm_data, unread, polled, reads>>
    /\ UNCHANGED <<callVars, lifeVars>>

NextPoll ==
    \/ PollArm1
    \/ PollArm2
    \/ EndCycle
    \/ Signal

SpecPoll == Init /\ [][NextPoll]_vars

---------------------------------------------------------------------------
(* Claims *)

\* the payload loop has ended without a throw: Decoding is reached or done
PayloadComplete ==
    /\ pc \in {"decode", "done"}
    /\ raised_in \notin {"send", "header", "payload"}
    /\ Len(header) = HeaderSize
    /\ Len(data) = header[4]

\* C1: a position is returned only for a response whose last payload byte is the
\* ones-complement (low 8 bits) of the sum of id, length, status and data bytes.
C1_SuccessOnlyWithCorrectChecksum ==
    (pc = "done" /\ result.kind = "Success") =>
        data[Len(data)] =
            255 - ((header[3] + header[4] + SumBytes(SubSeq(data, 1, Len(data) - 1))) % 256)

\* the four header bytes are 0xFF, 0xFF, the requested id and a length >= 4
ValidHeader ==
    /\ Len(header) = 4
    /\ header[1] = 255 /\ header[2] = 255
    /\ header[3] = servo_id
    /\ header[4] >= 4

\* C2: payload bytes are read (and a position returned) only after a header
\* 0xFF 0xFF <requested id> <length >= 4>; the validation of any other 4-byte
\* header ends the call with a frame error, with no payload byte read and no
\* byte taken from the line.
C2_PayloadOnlyAfterValidHeader ==
    /\ [](((pc \in {"payload", "decode"}) \/ data # <<>> \/ result.kind = "Success")
            => ValidHeader)
    /\ [][(pc = "validate" /\ ~ValidHeader /\ pc' # pc) =>
            /\ pc' = "done"
            /\ result'.kind = "Error"
            /\ result'.what = "Header error"
            /\ data' = <<>>
            /\ line' = line]_vars

\* C2 witness: a reply of another servo was refused and its payload is still unread
C2_Witness ==
    /\ pc = "done"
    /\ result.what = "Header error"
    /\ result.sub = "Mismatched servo ID"
    /\ ~from_old
    /\ line # <<>>

\* C3: every call ends, whatever the device does.
C3_EveryCallTerminates == (pc = "send") ~> (pc = "done")

\* C4: a call reads only bytes of the reply to its own request, never a byte an
\* earlier call left on the line.
C4_ReadsOnlyOwnReply ==
    /\ ~from_old
    /\ IsPrefix(header \o data, reply)

\* the position of a flag name in the fixed bit order
FlagIndex(name) == CHOOSE k \in 1 .. 7 : FlagNames[k] = name

\* C5: a nonzero status byte ends the call in Fault, never in a position, and the
\* message names the flags of the set bits 0..6, each once, in bit order, and no
\* other (0x05: Input Voltage, Overheating).
C5_FaultNamesExactlyTheSetFlags ==
    (pc = "done" /\ PayloadComplete /\ data[1] # 0) =>
        /\ result.kind = "Error"
        /\ result.what = "Servo errors"
        /\ result.position = 0
        /\ \A k \in 0 .. 6 :
              ((data[1] \div (2 ^ k)) % 2 = 1) <=>
                  (\E i \in DOMAIN result.flags : result.flags[i] = FlagNames[k + 1])
        /\ \A i \in DOMAIN result.flags : \E k \in 1 .. 7 : result.flags[i] = FlagNames[k]
        /\ \A i, j \in DOMAIN result.flags :
              i < j => FlagIndex(result.flags[i]) < FlagIndex(result.flags[j])
        /\ (data[1] = 5 => result.flags = <<"Input Voltage", "Overheating">>)

\* C5 witness: status 0x7A, five flags at once
C5_Witness ==
    /\ pc = "done"
    /\ PayloadComplete
    /\ data[1] = 122
    /\ Len(result.flags) = 5

C8_RequestChecksum ==
    (pc = "encoded") =>
        /\ Len(command) = 8
        /\ command[8] = 255 - ((servo_id + 4 + 2 + 56 + 2) % 256)

\* C8 witness: an id whose sum exceeds 8 bits (253 + 64 = 317)
C8_Witness ==
    /\ pc = "encoded"
    /\ servo_id = 253
    /\ servo_id + 4 + 2 + 56 + 2 > 255

\* the one frame a call may write
PositionRequest(id) ==
    <<255, 255, id, 4, 2, 56, 2, 255 - ((id + 4 + 2 + 56 + 2) % 256)>>

\* C9: all a call writes is the frame FF FF id 04 02 38 02 cs, once: what the line
\* has accepted is a prefix of it, and the whole of it once the write succeeded.
C9_OnlyThePositionRequestIsWritten ==
    /\ pc # "idle" => IsPrefix(tx, PositionRequest(servo_id))
    /\ pc \in {"settle", "header", "validate", "payload", "decode"}
          => tx = PositionRequest(servo_id)
    /\ (pc = "done" /\ raised_in # "send") => tx = PositionRequest(servo_id)

\* C9 witness: a call for servo 253 that went through to a position
C9_Witness ==
    /\ pc = "done"
    /\ servo_id = 253
    /\ result.kind = "Success"
    /\ Len(tx) = 8

\* the phase a message names
PhaseNamed(what) ==
    CASE what \in {"Write error", "Failed to write complete command"} -> "send"
      [] what \in {"Header read error", "Timeout waiting for header", "Header error"}
            -> "header"
      [] what \in {"Data read error", "Timeout waiting for data"} -> "payload"
      [] what = "Servo errors" -> "decode"
      [] OTHER -> "unknown"

\* C10: every failure reaches the caller as an error that carries the requested
\* id and names the phase it arose in; a failed call returns no position.
C10_ErrorsCarryIdAndPhase ==
    /\ (pc = "done" /\ raised_in # "") =>
          /\ result.kind = "Error"
          /\ result.id = servo_id
          /\ PhaseNamed(result.what) = raised_in
          /\ result.position = 0
    /\ (pc = "done" /\ raised_in = "") => result.kind = "Success"

\* C10 witness: a payload timeout of servo 253
C10_Witness ==
    /\ pc = "done"
    /\ raised_in = "payload"
    /\ result.what = "Timeout waiting for data"
    /\ result.id = 253

\* the phase that follows p when nothing fails
NextPhase(p) ==
    CASE p = "idle" -> "send"
      [] p = "send" -> "settle"
      [] p = "settle" -> "header"
      [] p = "header" -> "validate"
      [] p = "validate" -> "payload"
      [] p = "payload" -> "decode"
      [] p = "decode" -> "done"
      [] OTHER -> "idle"

\* C11: a call is one attempt in the order Sending, AwaitingHeader,
\* AwaitingPayload, Decoding, Success or Fault: a phase is left only for the next
\* one or, on an error, for the end of the call; the request is written in
\* Sending only, bytes are read only after the whole request was written, and a
\* position comes out of Decoding only.
C11_OneAttemptInFixedOrder ==
    [][/\ (pc' # pc) => (pc' = NextPhase(pc) \/ (pc' = "done" /\ pc \notin {"idle", "done"}))
       /\ (tx' # tx) => (pc = "send" \/ (pc = "done" /\ pc' = "idle" /\ tx' = <<>>))
       /\ (Len(header') > Len(header) \/ Len(data') > Len(data))
              => (pc \in {"header", "payload"} /\ tx = command /\ Len(tx) = 8)
       /\ (raised_in' # raised_in /\ raised_in' # "") => pc' = "done"
       /\ (result'.kind = "Success" /\ result.kind # "Success") => pc = "decode"]_vars

\* C11 witness: a call that failed in the header phase after its one write
C11_Witness ==
    /\ pc = "done"
    /\ raised_in = "header"
    /\ tx = command
    /\ Len(header) > 0

\* C12: when the write reports an error or takes fewer than the 8 bytes, the call
\* fails with a write error: nothing more is written, the header read is not
\* entered and no byte is taken from the line.
C12_FailedWriteEndsTheCall ==
    /\ [](((pc \notin {"idle", "send"}) /\ Len(tx) < Len(command)) =>
            /\ pc = "done"
            /\ result.kind = "Error"
            /\ result.what \in {"Write error", "Failed to write complete command"}
            /\ header = <<>> /\ data = <<>>
            /\ start_time = 0
            /\ ~from_old)
    /\ [][(pc = "send" /\ pc' # pc /\ tx' # command) =>
            (pc' = "done" /\ line' = line /\ IsPrefix(tx', command))]_vars
    /\ [][(pc = "done" /\ Len(tx) < Len(command) /\ pc' = pc) =>
            (tx' = tx /\ line' = line)]_vars

\* C12 witness: three of the eight bytes were taken and bytes of an earlier reply
\* are still on the line
C12_Witness ==
    /\ pc = "done"
    /\ Len(tx) = 3
    /\ result.what = "Failed to write complete command"
    /\ line # <<>>

\* C13: the serial handle of a reader is released exactly once over its lifetime:
\* a release acts only on a handle that is open, the release attempted again after
\* the destructor's body finds the handle closed and changes nothing, and a failure
\* of close is never passed on to the caller.
C13_ReleasedExactlyOnce ==
    /\ [](/\ closes <= 1
          /\ (life = "alive") => (is_open /\ closes = 0)
          /\ (life \in {"destructing", "destroyed"}) =>
                (~is_open /\ closes = 1 /\ surfaced = ""))
    /\ [][(closes' # closes) => (is_open /\ ~is_open' /\ closes' = closes + 1)]_vars
    /\ [][(life = "destructing") =>
                (is_open' = is_open /\ closes' = closes /\ surfaced' = surfaced)]_vars

\* C13 witness: a reader that made calls has been destroyed, member included
C13_Witness ==
    /\ life = "destroyed"
    /\ closes = 1
    /\ line # <<>>

\* C18: when open or one of the five configuration steps fails, construction ends
\* with the connection error, no reader exists on which readPosition could be
\* called, and the serial handle is not left open, also when open had succeeded.
C18_FailedConstructionLeavesNothing ==
    /\ [](/\ (life = "failed") =>
                /\ ~is_open
                /\ surfaced = "Failed to open serial port"
                /\ ctor_step < CtorSteps
                /\ closes = (IF ctor_step > 0 THEN 1 ELSE 0)
          /\ (pc # "idle") => (life = "alive" /\ surfaced = "")
          /\ (life = "alive") => (ctor_step = CtorSteps /\ surfaced = ""))
    /\ [][(life \in {"unwinding", "failed"}) =>
                (life' \in {"unwinding", "failed"} /\ pc' = "idle")]_vars
    /\ [][(life = "constructing" /\ life' # "alive" /\ ctor_step' = ctor_step) =>
                /\ life' \in {"constructing", "unwinding"}
                /\ (life' = "unwinding") =>
                        (surfaced' = "Failed to open serial port")]_vars

\* C18 witness: the fourth configuration step failed after the port was opened
C18_Witness ==
    /\ life = "failed"
    /\ ctor_step = 4
    /\ closes = 1

\* the byte that two hexadecimal digits stand for
HexValue(pair) ==
    LET Digit(c) == CHOOSE k \in 0 .. 15 : HexDigits[k + 1] = c
    IN  16 * Digit(pair[1]) + Digit(pair[2])

\* C15: header validation reports one error kind in a fixed precedence: invalid
\* markers whenever byte 0 or byte 1 is not 0xFF, whatever the id and length bytes
\* are; id mismatch only when both markers are 0xFF and byte 2 is not the requested
\* id; invalid length only when markers and id are right and byte 3 is below 4.
\* The error carries the four header bytes, in hexadecimal.
C15_HeaderErrorPrecedence ==
    /\ [](result.what = "Header error" =>
            /\ Len(header) = HeaderSize
            /\ (header[1] # 255 \/ header[2] # 255) =>
                    result.sub = "Invalid header markers"
            /\ (header[1] = 255 /\ header[2] = 255 /\ header[3] # servo_id) =>
                    result.sub = "Mismatched servo ID"
            /\ (header[1] = 255 /\ header[2] = 255 /\ header[3] = servo_id) =>
                    (result.sub = "Invalid length" /\ header[4] < MinLength)
            /\ Len(result.raw) = HeaderSize
            /\ \A i \in 1 .. HeaderSize : HexValue(result.raw[i]) = header[i])
    /\ [][(pc = "validate" /\ pc' # pc /\ ~ValidHeader) =>
            (pc' = "done" /\ result'.kind = "Error" /\ result'.what = "Header error")]_vars

\* C15 witness: markers, id and length are all wrong, and the markers are reported
C15_Witness ==
    /\ pc = "done"
    /\ result.what = "Header error"
    /\ result.sub = "Invalid header markers"
    /\ header[3] # servo_id
    /\ header[4] < MinLength
    /\ result.raw[2] = <<"0", "0">>

\* C16: a read phase fails with a timeout only while fewer than the bytes it needs
\* (4 for the header, the length byte's value for the payload) have been collected:
\* once all of them are accumulated the phase succeeds, even if the budget had
\* elapsed by the time the last byte arrived.
C16_TimeoutOnlyWhileBytesAreMissing ==
    /\ (result.what = "Timeout waiting for header") => Len(header) < HeaderSize
    /\ (result.what = "Timeout waiting for data") => Len(data) < header[4]

\* C17: the payload read has a budget of its own: its elapsed time is counted from
\* the start of the payload phase, so the time the header phase took neither causes
\* nor hastens a payload timeout, and the settle delay after the write counts
\* against neither budget.
C17_PayloadBudgetIsFresh ==
    [][/\ (pc = "settle" /\ pc' = "header") =>
                (now' >= now + SettleMs /\ start_time' = now')
       /\ (pc = "validate" /\ pc' = "payload") =>
                (now' = now /\ start_time' = now')
       /\ (pc \in {"header", "payload"}) => start_time' = start_time
       /\ (pc = "header" /\ result'.what = "Timeout waiting for header") =>
                now' - start_time' > TimeoutMs
       /\ (pc = "payload" /\ result'.what = "Timeout waiting for data") =>
                now' - start_time' > TimeoutMs]_vars

\* C17 witness: the payload is complete although more than one budget has gone by
\* since the settle delay ended, the header phase having used its budget up
C17_Witness ==
    /\ pc = "decode"
    /\ start_time = SettleMs + TimeoutMs
    /\ now - SettleMs > TimeoutMs
    /\ now - start_time > 0

\* C20: after any sequence of polling cycles, for every servo that has been read
\* successfully at least once, min is the smallest and max the largest position its
\* successful reads have returned (hence min <= current <= max), whatever 16-bit
\* position the driver returns.
C20_MinMaxAreTheExtremesRead ==
    \A a \in Arms, k \in ServoIndexes :
        reads[a][k] # {} =>
            /\ arm_data[a][k].min \in reads[a][k]
            /\ arm_data[a][k].max \in reads[a][k]
            /\ \A p \in reads[a][k] : arm_data[a][k].min <= p /\ p <= arm_data[a][k].max
            /\ arm_data[a][k].min <= arm_data[a][k].current
            /\ arm_data[a][k].current <= arm_data[a][k].max

\* C14: two readers on distinct serial lines share no state: a call on one reader
\* gives what that reader's own line and device make it give, as if the other reader
\* did not exist, and a failure or timeout on one changes neither the unread bytes
\* nor the data nor the result of the other.
C14_NoCrossTalk ==
    [][\A a \in Arms :
        /\ (unread'[a] # unread[a] \/ arm_data'[a] # arm_data[a] \/ reads'[a] # reads[a])
                => cursor.arm = a
        /\ (cursor.arm = a /\ cursor' # cursor) =>
                \E x \in Arrivals(cursor.i + 1, unread[a]) :
                    LET r == ReadPosition(cursor.i + 1, unread[a] \o x[1])
                    IN  /\ polled' = r.result
                        /\ unread'[a] = r.rest \o x[2]
                        /\ arm_data'[a][cursor.i] = Store(arm_data[a][cursor.i], r.result)
                        /\ unread'[3 - a] = unread[3 - a]
                        /\ arm_data'[3 - a] = arm_data[3 - a]]_vars

\* C14 witness: arm 1's last read timed out and its late reply lies unread on arm
\* 1's line, while the read of arm 2 that followed succeeded on an empty line
C14_Witness ==
    /\ cursor = [arm |-> 2, i |-> 1]
    /\ arm_data[1][1].error.what = "Timeout waiting for header"
    /\ unread[1] # <<>>
    /\ unread[2] = <<>>
    /\ polled.kind = "Success"
    /\ arm_data[2][0].error = NoResult

\* C19: in the polling loop a failed readPosition leaves the servo's current, min
\* and max as they were after its last successful read and only records the error
\* message; the sweep goes on with the remaining servos of both arms, the servo is
\* read again in the next cycle, and a later successful read clears the error.
C19_FailedReadKeepsLastGoodValues ==
    /\ [](\A a \in Arms, k \in ServoIndexes :
            /\ (reads[a][k] = {}) =>
                    /\ arm_data[a][k].current = InitialServoData.current
                    /\ arm_data[a][k].min = InitialServoData.min
                    /\ arm_data[a][k].max = InitialServoData.max
            /\ (reads[a][k] # {}) => arm_data[a][k].current \in reads[a][k])
    /\ [][(cursor.arm \in Arms /\ cursor' # cursor) =>
            LET a == cursor.arm
                k == cursor.i
            IN  /\ cursor' = NextCursor(cursor)
                /\ (polled'.kind = "Error") =>
                        /\ arm_data'[a][k].current = arm_data[a][k].current
                        /\ arm_data'[a][k].min = arm_data[a][k].min
                        /\ arm_data'[a][k].max = arm_data[a][k].max
                        /\ arm_data'[a][k].error = polled'
                        /\ reads' = reads
                /\ (polled'.kind # "Error") =>
                        /\ polled'.kind = "Success"
                        /\ arm_data'[a][k].current = polled'.position
                        /\ arm_data'[a][k].error = NoResult
                /\ \A b \in Arms, j \in ServoIndexes :
                        (<<b, j>> # <<a, k>>) => arm_data'[b][j] = arm_data[b][j]]_vars
    /\ [][(cursor.arm = 0 /\ cursor' # cursor) =>
            (cursor' = [arm |-> 1, i |-> 0] /\ arm_data' = arm_data)]_vars

\* C19 witness: servo 1 of arm 1, read as 4660 in an earlier cycle, has just failed
\* and keeps 4660 with the error, and the read of the next servo has succeeded
C19_Witness ==
    /\ cursor = [arm |-> 2, i |-> 0]
    /\ arm_data[1][0].error.kind = "Error"
    /\ arm_data[1][0].current = 4660
    /\ arm_data[1][0].max = 4660
    /\ polled.kind = "Success"
    /\ arm_data[1][1].error = NoResult

\* C21: in each read phase the bytes accumulated never exceed the bytes required (4
\* for the header, the length byte's value for the payload), so a successful call
\* has taken exactly 4 + length bytes from the line and leaves further bytes unread;
\* decoding happens only with a payload of at least 4 bytes, so the status byte and
\* the two data bytes it reads lie inside the payload.
C21_ReadsAreBoundedByWhatIsRequired ==
    /\ [](/\ Len(header) <= HeaderSize
          /\ (data # <<>>) => (Len(header) = HeaderSize /\ Len(data) <= header[4])
          /\ (pc \in {"payload", "decode"}) => Len(header) = HeaderSize
          /\ (pc = "decode" \/ result.kind = "Success") =>
                /\ Len(header) = HeaderSize
                /\ header[4] >= MinLength
                /\ Len(data) = header[4]
                /\ {1, 2, 3} \subseteq DOMAIN data)
    /\ [][(line' # line /\ pc' # "send" /\ Len(line') <= Len(line)) =>
            LET taken == Len(line) - Len(line')
            IN  /\ pc \in {"header", "payload"}
                /\ line' = SubSeq(line, taken + 1, Len(line))
                /\ Len(header') + Len(data') = Len(header) + Len(data) + taken
                /\ taken <= IF pc = "header" THEN HeaderSize - Len(header)
                                             ELSE header[4] - Len(data)]_vars
    /\ [][(Len(header') + Len(data') > Len(header) + Len(data)) =>
            Len(line') < Len(line)]_vars

\* C21 witness: a call has succeeded and a byte that arrived after its frame is
\* still on the line
C21_Witness ==
    /\ pc = "done"
    /\ result.kind = "Success"
    /\ Len(header) + Len(data) = HeaderSize + header[4]
    /\ line # <<>>
    /\ ~Old(line)

====
